---- MODULE Spec2Model ----
(***************************************************************************)
(* Model of ldm/invoke/model_cache.py (class ModelCache): the registry of  *)
(* model descriptors (self.config), the pool of loaded models              *)
(* (self.models), the residency order (self.stack), the active model       *)
(* (self.current_model) and the configured capacity                        *)
(* (self.max_loaded_models).  Every public method is one action; the       *)
(* private helpers are operators over a record of the object's fields.     *)
(***************************************************************************)
EXTENDS Integers, Sequences, FiniteSets, TLC

(* ------------------------------ bounds --------------------------------- *)

\* largest max_loaded_models a cache is constructed with (0 is accepted too)
MaxCapacity == 2

\* depth at which the interpreter stops the recursion of get_model
\* (sys.getrecursionlimit(), scaled down)
RecursionLimit == 3

\* number of commit calls followed
MaxCommits == 2

\* latest modification time on the clock of the file system
MaxClock == 1

\* opt.steps of a generation request: the number of step callbacks
MaxSteps == 2

(* --------------------------- value domains ----------------------------- *)

\* model names used as arguments; "C" is not in the initial models.yaml
Names == {"A", "B", "C"}

\* Python's None, as the value of self.current_model and as an argument
None == "None"

\* trained sizes a descriptor may declare
Sizes == {512, 768}

\* the size declared by every descriptor of the initial models.yaml
InitialSize == 512

\* torch.device(device_type) of the constructor: an accelerator
device == "cuda"

\* config files the caller may name: the models.yaml the registry was read
\* from and, in the same directory, a file called new_config.tmp
Paths == {"configs/models.yaml", "configs/new_config.tmp"}

RequiredFields == {"description", "weights", "height", "width", "config"}

\* a complete attribute dictionary for add_model, flagged default or not
Attributes(size, isdefault) ==
    [f \in RequiredFields \cup (IF isdefault THEN {"default"} ELSE {}) |->
        IF f \in {"height", "width"} THEN size ELSE 1]

\* an attribute dictionary lacking the required field g
AttributesWithout(g) ==
    [f \in RequiredFields \ {g} |->
        IF f \in {"height", "width"} THEN InitialSize ELSE 1]

\* the attribute dictionaries passed to add_model: complete ones, with or
\* without a default flag, and ones lacking one required field
AttributeInputs ==
    {Attributes(InitialSize, d) : d \in BOOLEAN}
        \cup {AttributesWithout(g) : g \in RequiredFields}

(* ------------------------------ state ---------------------------------- *)

VARIABLES
    config,             \* self.config: model name -> descriptor (field -> value)
    models,             \* self.models: model name -> [model, width, height, hash]
    stack,              \* self.stack: model names, least recent first
    current_model,      \* self.current_model: a name or None
    max_loaded_models,  \* self.max_loaded_models
    ret,                \* the last call: method, arguments, outcome
    scenario,           \* progress of the calls so far along Scenario
    files,              \* the file system: path -> File(lines) or Missing
    pc,                 \* where the running commit is, if any
    order,              \* the pool's names, least recently acquired first
    disk,               \* weights files, their .sha256 files and the clock
    server              \* DreamServer: the canceled Event and the POST threads

vars == <<config, models, stack, current_model, max_loaded_models, ret, scenario,
          files, pc, order, disk, server>>

\* the models of a pool that are on the device
DeviceResident(pool) == {n \in DOMAIN pool : pool[n].model = device}

\* the object's mutable fields as one record, threaded through the helpers;
\* exc is the exception in flight ("" when none), loads counts the calls of
\* _load_model made so far by the running method, failed those that raised,
\* evicted is the model purged by _make_cache_room (None when none), and
\* peak is the largest number of pooled models that have been on the device
\* at one time since the running method started
Self ==
    [config |-> config, models |-> models, stack |-> stack,
     current_model |-> current_model, max_loaded_models |-> max_loaded_models,
     exc |-> "", loads |-> 0, failed |-> 0, evicted |-> None,
     peak |-> Cardinality(DeviceResident(models))]

\* s with peak brought up to date, after a model was put on the device
Peak(s) ==
    LET k == Cardinality(DeviceResident(s.models))
    IN  [s EXCEPT !.peak = IF k > @ THEN k ELSE @]

(* --------------------------- list helpers ------------------------------ *)

InList(x, s) == \E i \in 1..Len(s) : s[i] = x

\* list.remove(x): drops the first occurrence of x
ListRemove(s, x) ==
    IF ~InList(x, s) THEN s
    ELSE LET i == CHOOSE k \in 1..Len(s) : s[k] = x /\ \A j \in 1..(k-1) : s[j] # x
         IN  SubSeq(s, 1, i-1) \o SubSeq(s, i+1, Len(s))

\* dict without key k (del d[k], d.pop(k, None))
DictDel(d, k) == [x \in DOMAIN d \ {k} |-> d[x]]

\* dict with d[k] = v
DictSet(d, k, v) == [x \in DOMAIN d \cup {k} |-> IF x = k THEN v ELSE d[x]]

(* ------------------------- private helpers ----------------------------- *)

valid_model(s, model_name) == model_name \in DOMAIN s.config

\* _model_to_cpu leaving the model where it is
_model_to_cpu_stay(model) == model

_model_to_cpu(model) == IF device = "cpu" THEN model ELSE "cpu"

_model_from_cpu(model) == IF device # "cpu" THEN device ELSE model

\* offload_model leaving no model active
offload_model_deselect(s, model_name) ==
    IF model_name \notin DOMAIN s.models THEN s
    ELSE [s EXCEPT !.models[model_name].model = _model_to_cpu(@),
                   !.current_model = None]

\* offload_model deleting the entry it has moved to the CPU
offload_model_purge(s, model_name) ==
    IF model_name \notin DOMAIN s.models THEN s
    ELSE [s EXCEPT !.models = [n \in DOMAIN @ \ {model_name} |-> @[n]]]

offload_model(s, model_name) ==
    IF model_name \notin DOMAIN s.models THEN s
    ELSE [s EXCEPT !.models[model_name].model = _model_to_cpu(@)]

\* stack.pop(0); IndexError on an empty list
_pop_oldest_model(s) ==
    IF Len(s.stack) = 0 THEN [s EXCEPT !.exc = "IndexError"]
    ELSE [s EXCEPT !.stack = Tail(@)]

\* _make_cache_room comparing with > instead of >=
_make_cache_room_late(s) ==
    IF Cardinality(DOMAIN s.models) > s.max_loaded_models
    THEN LET p == _pop_oldest_model(s)
         IN  IF p.exc # "" THEN p
             ELSE LET least_recent_model == Head(s.stack)
                  IN  [p EXCEPT !.models = DictDel(@, least_recent_model),
                                !.evicted = least_recent_model]
    ELSE s

\* _make_cache_room popping the stack without deleting the pool entry
_make_cache_room_keep(s) ==
    IF Cardinality(DOMAIN s.models) >= s.max_loaded_models
    THEN LET p == _pop_oldest_model(s)
         IN  IF p.exc # "" THEN p
             ELSE [p EXCEPT !.evicted = Head(s.stack)]
    ELSE s

_make_cache_room(s) ==
    IF Cardinality(DOMAIN s.models) >= s.max_loaded_models
    THEN LET p == _pop_oldest_model(s)
         IN  IF p.exc # "" THEN p
             ELSE LET least_recent_model == Head(s.stack)
                  IN  [p EXCEPT !.models = DictDel(@, least_recent_model),
                                !.evicted = least_recent_model]
    ELSE s

\* _push_newest_model appending without removing the earlier occurrence
_push_newest_model_dup(s, model_name) ==
    [s EXCEPT !.stack = Append(@, model_name)]

_push_newest_model(s, model_name) ==
    [s EXCEPT !.stack = Append(ListRemove(@, model_name), model_name)]

\* _invalidate_cached_model leaving no model active when it drops the
\* active one
_invalidate_cached_model_deselect(s, model_name) ==
    LET o == offload_model(s, model_name)
    IN  [o EXCEPT !.stack = ListRemove(@, model_name),
                  !.models = DictDel(@, model_name),
                  !.current_model = IF @ = model_name THEN None ELSE @]

_invalidate_cached_model(s, model_name) ==
    LET o == offload_model(s, model_name)
    IN  [o EXCEPT !.stack = ListRemove(@, model_name),
                  !.models = DictDel(@, model_name)]

\* what _load_model returns when it does not raise: the model on the device,
\* the declared sizes and the hash of the weights
_load_model(s, model_name) ==
    [model |-> device,
     width |-> s.config[model_name]["width"],
     height |-> s.config[model_name]["height"],
     hash |-> "sha256"]

(* ------------------------------ results -------------------------------- *)

\* the AssertionErrors of add_model (lines 181, 183) and of set_default_model
MissingField == "AssertionError: required field is missing"
AlreadyExists == "AssertionError: attempt to overwrite existing model definition"
UnknownModel == "AssertionError: unknown model"

RetNone == [type |-> "None"]
RetStr(n) == IF n = None THEN RetNone ELSE [type |-> "str", name |-> n]
RetDict(e) == [type |-> "dict", model |-> e.model, width |-> e.width,
               height |-> e.height, hash |-> e.hash]
RetRaise(e) == [type |-> "raise", exc |-> e]
RetTrue == [type |-> "True"]
RetListing(l) == [type |-> "listing", models |-> l]

(* ------------------------------ get_model ------------------------------ *)

RECURSIVE get_model_late(_, _, _, _)
\* get_model making room and offloading the active model before it checks
\* that the name is known
get_model_late(s, model_name, nfail, depth) ==
      LET s1 == IF s.current_model # model_name
                THEN LET r == IF model_name \notin DOMAIN s.models
                              THEN _make_cache_room(s) ELSE s
                     IN  IF r.exc # "" THEN r ELSE offload_model(r, s.current_model)
                ELSE s
      IN
      IF s1.exc # "" THEN [self |-> s1, result |-> RetRaise(s1.exc)]
      ELSE IF ~valid_model(s1, model_name)
      THEN [self |-> s1, result |-> RetStr(s1.current_model)]
      ELSE IF model_name \in DOMAIN s1.models
      THEN LET s2 == Peak([s1 EXCEPT !.models[model_name].model = _model_from_cpu(@)])
               s3 == [s2 EXCEPT !.current_model = model_name]
           IN  [self |-> _push_newest_model(s3, model_name),
                result |-> RetDict(s2.models[model_name])]
      ELSE LET s2 == [s1 EXCEPT !.loads = @ + 1]
           IN  IF s2.loads > nfail
               THEN LET e  == _load_model(s2, model_name)
                        s3 == [Peak([s2 EXCEPT !.models = DictSet(@, model_name, e)])
                                    EXCEPT !.current_model = model_name]
                    IN  [self |-> _push_newest_model(s3, model_name),
                         result |-> RetDict(e)]
               ELSE LET f == [s2 EXCEPT !.failed = @ + 1]
                    IN  IF depth >= RecursionLimit
                        THEN [self |-> [f EXCEPT !.exc = "RecursionError"],
                              result |-> RetRaise("RecursionError")]
                        ELSE LET r == get_model_late(f, f.current_model, nfail, depth + 1)
                             IN  IF r.result.type = "raise" THEN r
                                 ELSE [self |-> r.self, result |-> RetNone]

RECURSIVE get_model(_, _, _, _)
\* returns [self, result].  The loader is an input: of the calls of
\* _load_model made by one top-level get_model, the first nfail raise and the
\* next one succeeds.  depth is the number of get_model frames on the call
\* stack; a frame that would recurse at RecursionLimit raises RecursionError,
\* which no handler below it can absorb.
get_model(s, model_name, nfail, depth) ==
    IF ~valid_model(s, model_name)
    THEN [self |-> s, result |-> RetStr(s.current_model)]
    ELSE
      LET s1 == IF s.current_model # model_name
                THEN LET r == IF model_name \notin DOMAIN s.models
                              THEN _make_cache_room(s) ELSE s
                     IN  IF r.exc # "" THEN r ELSE offload_model(r, s.current_model)
                ELSE s
      IN
      IF s1.exc # "" THEN [self |-> s1, result |-> RetRaise(s1.exc)]
      ELSE IF model_name \in DOMAIN s1.models
      THEN LET s2 == Peak([s1 EXCEPT !.models[model_name].model = _model_from_cpu(@)])
               s3 == [s2 EXCEPT !.current_model = model_name]
           IN  [self |-> _push_newest_model(s3, model_name),
                result |-> RetDict(s2.models[model_name])]
      ELSE LET s2 == [s1 EXCEPT !.loads = @ + 1]
           IN  IF s2.loads > nfail
               THEN LET e  == _load_model(s2, model_name)
                        s3 == [Peak([s2 EXCEPT !.models = DictSet(@, model_name, e)])
                                    EXCEPT !.current_model = model_name]
                    IN  [self |-> _push_newest_model(s3, model_name),
                         result |-> RetDict(e)]
               ELSE LET f == [s2 EXCEPT !.failed = @ + 1]
                    IN  IF depth >= RecursionLimit
                        THEN [self |-> [f EXCEPT !.exc = "RecursionError"],
                              result |-> RetRaise("RecursionError")]
                        ELSE LET r == get_model(f, f.current_model, nfail, depth + 1)
                             IN  IF r.result.type = "raise" THEN r
                                 ELSE [self |-> r.self, result |-> RetNone]

\* the descriptor after  for field in model_attributes: config[field] = ...
Merge(old, model_attributes) ==
    [f \in DOMAIN old \cup DOMAIN model_attributes |->
        IF f \in DOMAIN model_attributes THEN model_attributes[f] ELSE old[f]]

EmptyDict == [f \in {} |-> 0]

\* add_model without the assertion against overwriting
add_model_overwrite(s, model_name, model_attributes, clobber) ==
    IF ~(RequiredFields \subseteq DOMAIN model_attributes)
    THEN [s EXCEPT !.exc = MissingField]
    ELSE LET cfg == IF model_name \in DOMAIN s.config
                    THEN s.config[model_name] ELSE EmptyDict
             s1  == [s EXCEPT !.config =
                        DictSet(@, model_name, Merge(cfg, model_attributes))]
         IN  IF clobber THEN _invalidate_cached_model(s1, model_name) ELSE s1

\* add_model invalidating the cached entry before it checks the attributes
add_model_eager(s, model_name, model_attributes, clobber) ==
    LET s0 == IF clobber THEN _invalidate_cached_model(s, model_name) ELSE s
    IN  IF ~(RequiredFields \subseteq DOMAIN model_attributes)
        THEN [s0 EXCEPT !.exc = MissingField]
        ELSE IF ~(clobber \/ model_name \notin DOMAIN s.config)
        THEN [s0 EXCEPT !.exc = AlreadyExists]
        ELSE LET cfg == IF model_name \in DOMAIN s.config
                        THEN s.config[model_name] ELSE EmptyDict
             IN  [s0 EXCEPT !.config =
                        DictSet(@, model_name, Merge(cfg, model_attributes))]

add_model(s, model_name, model_attributes, clobber) ==
    IF ~(RequiredFields \subseteq DOMAIN model_attributes)
    THEN [s EXCEPT !.exc = MissingField]
    ELSE IF ~(clobber \/ model_name \notin DOMAIN s.config)
    THEN [s EXCEPT !.exc = AlreadyExists]
    ELSE LET cfg == IF model_name \in DOMAIN s.config
                    THEN s.config[model_name] ELSE EmptyDict
             s1  == [s EXCEPT !.config =
                        DictSet(@, model_name, Merge(cfg, model_attributes))]
         IN  IF clobber THEN _invalidate_cached_model(s1, model_name) ELSE s1

\* config[model].pop('default', None) for every model of the registry
ClearDefaults(cfg) == [n \in DOMAIN cfg |-> DictDel(cfg[n], "default")]

\* set_default_model checking the name against the registry, not the pool
set_default_model_registry(s, model_name) ==
    IF model_name \notin DOMAIN s.config
    THEN [s EXCEPT !.exc = UnknownModel]
    ELSE LET s1 == [s EXCEPT !.config = ClearDefaults(@)]
         IN  [s1 EXCEPT !.config[model_name] = DictSet(@, "default", 1)]

\* set_default_model without the loop that clears the other flags
set_default_model_keep(s, model_name) ==
    IF model_name \notin DOMAIN s.models
    THEN [s EXCEPT !.exc = UnknownModel]
    ELSE IF model_name \notin DOMAIN s.config
         THEN [s EXCEPT !.exc = "KeyError"]
         ELSE [s EXCEPT !.config[model_name] = DictSet(@, "default", 1)]

set_default_model(s, model_name) ==
    IF model_name \notin DOMAIN s.models
    THEN [s EXCEPT !.exc = UnknownModel]
    ELSE LET s1 == [s EXCEPT !.config = ClearDefaults(@)]
         IN  IF model_name \notin DOMAIN s1.config
             THEN [s1 EXCEPT !.exc = "KeyError"]
             ELSE [s1 EXCEPT !.config[model_name] = DictSet(@, "default", 1)]

\* the models of the registry whose default flag is set
\* (self.config[model_name].get('default', False))
Flagged(cfg) ==
    {n \in DOMAIN cfg : "default" \in DOMAIN cfg[n] /\ cfg[n]["default"] # 0}

\* the first model of the registry flagged default, or None; when several
\* are flagged the code returns the first in the registry's order, which the
\* model does not keep: one of them
default_model(s) ==
    LET flagged == Flagged(s.config)
    IN  IF flagged = {} THEN None ELSE CHOOSE n \in flagged : TRUE

\* the dict returned by list_models: one entry per name of the registry
list_models(s) ==
    [name \in DOMAIN s.config |->
        [status |-> IF s.current_model = name THEN "active"
                    ELSE IF name \in DOMAIN s.models THEN "cached"
                    ELSE "not loaded",
         description |-> IF "description" \in DOMAIN s.config[name]
                         THEN s.config[name]["description"]
                         ELSE "<no description>"]]

\* del_model leaving the name in the stack
del_model_nostack(s, model_name) ==
    IF model_name \notin DOMAIN s.config
    THEN [s EXCEPT !.exc = "KeyError"]
    ELSE [s EXCEPT !.config = DictDel(@, model_name)]

del_model(s, model_name) ==
    IF model_name \notin DOMAIN s.config
    THEN [s EXCEPT !.exc = "KeyError"]
    ELSE [s EXCEPT !.config = DictDel(@, model_name),
                   !.stack = ListRemove(@, model_name)]

(* ------------------------------- actions ------------------------------- *)

\* residency of a name in the pool: "absent", "cpu" or the device
(* --------------------------- config document --------------------------- *)

\* a path with no file, and a file holding the given lines
Missing == [exists |-> FALSE, lines |-> <<>>]
File(lines) == [exists |-> TRUE, lines |-> lines]

\* the paths of the model, each with its directory, its file name, and the
\* file name split at its last dot
PathTable ==
    { [path |-> "configs/models.yaml", dir |-> "configs",
       name |-> "models.yaml", base |-> "models", ext |-> ".yaml"],
      [path |-> "configs/new_config.tmp", dir |-> "configs",
       name |-> "new_config.tmp", base |-> "new_config", ext |-> ".tmp"],
      [path |-> "models/sd.ckpt", dir |-> "models",
       name |-> "sd.ckpt", base |-> "sd", ext |-> ".ckpt"],
      [path |-> "models/sd.safetensors", dir |-> "models",
       name |-> "sd.safetensors", base |-> "sd", ext |-> ".safetensors"],
      [path |-> "models/v2.ckpt", dir |-> "models",
       name |-> "v2.ckpt", base |-> "v2", ext |-> ".ckpt"],
      [path |-> "models/sd.sha256", dir |-> "models",
       name |-> "sd.sha256", base |-> "sd", ext |-> ".sha256"],
      [path |-> "models/v2.sha256", dir |-> "models",
       name |-> "v2.sha256", base |-> "v2", ext |-> ".sha256"] }

os_path_dirname(path) == (CHOOSE e \in PathTable : e.path = path).dir

os_path_basename(path) == (CHOOSE e \in PathTable : e.path = path).name

\* os.path.splitext(name): the pair (base, extension)
os_path_splitext(name) ==
    LET e == CHOOSE x \in PathTable : x.name = name IN <<e.base, e.ext>>

os_path_join(dir, name) ==
    (CHOOSE e \in PathTable : e.dir = dir /\ e.name = name).path

\* the temporary file commit writes to
tmpfile(config_file_path) ==
    os_path_join(os_path_dirname(config_file_path), "new_config.tmp")

Comment(text) == [kind |-> "comment", text |-> text]

\* the lines returned by preamble()
preamble ==
    << Comment("# This file describes the alternative machine learning models"),
       Comment("# available to InvokeAI script."),
       Comment("#"),
       Comment("# To add a new model, follow the examples below. Each"),
       Comment("# model requires a model config file, a weights file,"),
       Comment("# and the width and height of the images it"),
       Comment("# was trained on.") >>

RECURSIVE SetToSeq(_)
\* the elements of a set of strings or numbers, one after the other
SetToSeq(S) ==
    IF S = {} THEN <<>>
    ELSE LET x == CHOOSE y \in S : TRUE IN <<x>> \o SetToSeq(S \ {x})

RECURSIVE Digits(_)
\* the decimal digits of a natural number, most significant first
Digits(n) == IF n < 10 THEN <<n>> ELSE Append(Digits(n \div 10), n % 10)

RECURSIVE FromDigits(_)
FromDigits(d) ==
    IF Len(d) = 0 THEN 0
    ELSE 10 * FromDigits(SubSeq(d, 1, Len(d) - 1)) + d[Len(d)]

\* the YAML scalar of the value v of field f: width and height are
\* integers, default is a boolean, the other fields are strings
ToScalar(f, v) ==
    IF f \in {"height", "width"} THEN [tag |-> "int", digits |-> Digits(v)]
    ELSE IF f = "default"
         THEN [tag |-> "bool", text |-> IF v # 0 THEN "true" ELSE "false"]
         ELSE [tag |-> "str", text |-> v]

FromScalar(x) ==
    IF x.tag = "int" THEN FromDigits(x.digits)
    ELSE IF x.tag = "bool" THEN (IF x.text = "true" THEN 1 ELSE 0)
    ELSE x.text

\* the lines of one descriptor: its name at column 0, then one indented
\* line per field
EntryLines(cfg, name) ==
    LET fields == SetToSeq(DOMAIN cfg[name])
    IN  <<[kind |-> "key", indent |-> 0, key |-> name]>>
        \o [i \in 1..Len(fields) |->
                [kind |-> "field", indent |-> 2, key |-> fields[i],
                 value |-> ToScalar(fields[i], cfg[name][fields[i]])]]

RECURSIVE Concat(_)
Concat(ss) == IF Len(ss) = 0 THEN <<>> ELSE Head(ss) \o Concat(Tail(ss))

\* OmegaConf.to_yaml(self.config): block style, one entry per model, and
\* the flow mapping {} for an empty registry
ToYaml(cfg) ==
    IF DOMAIN cfg = {} THEN <<[kind |-> "flow", text |-> "{}"]>>
    ELSE LET names == SetToSeq(DOMAIN cfg)
         IN  Concat([i \in 1..Len(names) |-> EntryLines(cfg, names[i])])

\* a fresh load of a document: comments are skipped, each line at column 0
\* opens a descriptor and the indented lines after it are its fields
Load(doc) ==
    LET body  == SelectSeq(doc, LAMBDA l : l.kind # "comment")
        heads == {i \in 1..Len(body) : body[i].kind = "key"}
        owner(i) == CHOOSE h \in heads :
                        h < i /\ \A g \in heads : g < i => g <= h
        lines(h) == {i \in 1..Len(body) :
                        body[i].kind = "field" /\ owner(i) = h}
    IN  [name \in {body[h].key : h \in heads} |->
            LET h == CHOOSE g \in heads : body[g].key = name
            IN  [f \in {body[i].key : i \in lines(h)} |->
                    FromScalar(body[CHOOSE i \in lines(h) :
                                        body[i].key = f].value)]]

\* open(path, 'w'): the file is created, or truncated when it exists
open_w(fs, path) == [fs EXCEPT ![path] = File(<<>>)]

\* outfile.write(lines)
write(fs, path, lines) == [fs EXCEPT ![path] = File(@.lines \o lines)]

\* os.replace leaving both files as they are
os_replace_none(fs, src, dst) == fs

\* os.replace(src, dst): dst becomes the file src was, in one step
os_replace(fs, src, dst) ==
    IF src = dst THEN fs
    ELSE [fs EXCEPT ![dst] = fs[src], ![src] = Missing]

\* no commit is running; n commits were made so far
Idle(n) ==
    [at |-> "idle", path |-> None, tmpfile |-> None, yaml_str |-> <<>>,
     old |-> Missing, commits |-> n]

(* ------------------------- weights and hashes -------------------------- *)

\* weights files named by the registry's descriptors, and the .sha256
\* files kept next to them
WeightPaths == {"models/sd.ckpt", "models/sd.safetensors", "models/v2.ckpt"}
HashPaths == {"models/sd.sha256", "models/v2.sha256"}

\* contents a weights file may have
Data == {"bytes1", "bytes2"}

\* hashlib.sha256 of the data, as hexdigest
sha256(data) == <<"sha256", data>>

\* f'{base}.sha256'
Sha256Name(base) ==
    (CHOOSE e \in PathTable : e.base = base /\ e.ext = ".sha256").name

\* the hashpath of _cached_sha256
hashpath(path) ==
    LET dirname  == os_path_dirname(path)
        basename == os_path_basename(path)
        base     == os_path_splitext(basename)[1]
    IN  os_path_join(dirname, Sha256Name(base))

\* a .sha256 file written at time mtime for the weights file of
NoHash == [exists |-> FALSE, mtime |-> 0, text |-> None, of |-> None]
HashFile(mtime, text, of) ==
    [exists |-> TRUE, mtime |-> mtime, text |-> text, of |-> of]

\* _cached_sha256 trusting the hash file only when it is strictly newer
_cached_sha256_strict(d, path, data) ==
    LET hp == hashpath(path)
    IN  IF d.hashes[hp].exists /\ d.weights[path].mtime < d.hashes[hp].mtime
        THEN [disk |-> d, hash |-> d.hashes[hp].text, read |-> TRUE]
        ELSE LET hash == sha256(data)
             IN  [disk |-> [d EXCEPT !.hashes[hp] = HashFile(d.clock, hash, path)],
                  hash |-> hash, read |-> FALSE]

\* returns the file system afterwards, the hash, and whether the hash was
\* read from the hash file
_cached_sha256(d, path, data) ==
    LET hp == hashpath(path)
    IN  IF d.hashes[hp].exists /\ d.weights[path].mtime <= d.hashes[hp].mtime
        THEN [disk |-> d, hash |-> d.hashes[hp].text, read |-> TRUE]
        ELSE LET hash == sha256(data)
             IN  [disk |-> [d EXCEPT !.hashes[hp] = HashFile(d.clock, hash, path)],
                  hash |-> hash, read |-> FALSE]

\* the weights files as first found, no hash file yet, no call made
InitDisk ==
    [clock |-> 0,
     weights |-> [w \in WeightPaths |->
                    [mtime |-> 0,
                     data |-> IF w = "models/sd.safetensors"
                              THEN "bytes2" ELSE "bytes1"]],
     hashes |-> [h \in HashPaths |-> NoHash],
     last |-> [path |-> None, hash |-> None, read |-> FALSE, of |-> None]]

(* ------------------------------ DreamServer ----------------------------- *)

\* the POST requests served, each by a thread of ThreadingHTTPServer
Requests == {"post1", "post2"}

\* a POST thread: where it is, the step callbacks made, the events written
\* to its wfile, and the number of events written when a GET /cancel was
\* handled during its generation (-1 when none was)
NewPost == [at |-> "new", step |-> 0, wfile |-> <<>>, cancel_at |-> -1]

\* the class attribute canceled = Event(), shared by all handlers
InitServer == [canceled |-> FALSE, post |-> [r \in Requests |-> NewPost]]

\* the step callback of do_POST: with the flag set it writes 'canceled' and
\* raises CanceledException, which ends the request; else it writes 'step'
image_progress(sv, r) ==
    IF sv.canceled
    THEN [sv EXCEPT !.post[r].wfile = Append(@, "canceled"),
                    !.post[r].at = "canceled"]
    ELSE [sv EXCEPT !.post[r].wfile = Append(@, "step"),
                    !.post[r].step = @ + 1]

(* ------------------------------- actions -------------------------------- *)

Where(m, n) == IF n \in DOMAIN m THEN m[n].model ELSE "absent"

\* the scenario of the specification: from a registry with A (default) and
\* B, acquire A, then B, then A, the loader succeeding
Scenario == <<"A", "B", "A">>

\* scenario.step is the number of calls of Scenario made so far when the
\* calls since construction are exactly its first calls, and -1 otherwise;
\* scenario.loads is the number of _load_model calls they made
Follow(call) ==
    IF /\ scenario.step >= 0
       /\ scenario.step < Len(Scenario)
       /\ call.op = "get_model"
       /\ call.name = Scenario[scenario.step + 1]
       /\ call.failed = 0
    THEN [step |-> scenario.step + 1, loads |-> scenario.loads + call.loads]
    ELSE [step |-> -1, loads |-> 0]

\* the record of a call: the method, its argument, where the argument was
\* (Where) and which model was active when the call started, the number of
\* _load_model calls made and how many of them failed, the model purged
\* to make room, the largest number of pooled models on the device at
\* one time during the call, and the outcome
Call(op, model_name, s, result) ==
    [op |-> op, name |-> model_name,
     was |-> Where(models, model_name), prev |-> current_model,
     loads |-> s.loads, failed |-> s.failed, evicted |-> s.evicted,
     peak |-> s.peak, result |-> result]

\* the model a call acquired: the requested one when get_model returned
\* it, the previously active one when the load failed and the recovery call
\* get_model(current_model) returned it, else None
AcquiredBy(call) ==
    IF call.op # "get_model" THEN None
    ELSE IF call.result.type = "dict" THEN call.name
    ELSE IF call.result = RetNone /\ call.failed >= 1 /\ call.prev \in DOMAIN config
         THEN call.prev
         ELSE None

\* order after a call that left the pool as pool: the names purged or
\* invalidated are dropped, the acquired model becomes the most recent
Track(pool, call) ==
    LET a    == AcquiredBy(call)
        kept == SelectSeq(order, LAMBDA x : x \in DOMAIN pool /\ x # a)
    IN  IF a = None THEN kept ELSE Append(kept, a)

Outcome(s) == IF s.exc # "" THEN RetRaise(s.exc) ELSE RetTrue

GetModel(model_name, nfail) ==
    /\ pc.at = "idle"
    /\ \E r \in {get_model(Self, model_name, nfail, 1)} :
       \E call \in {Call("get_model", model_name, r.self, r.result)} :
           /\ config' = r.self.config
           /\ models' = r.self.models
           /\ stack' = r.self.stack
           /\ current_model' = r.self.current_model
           /\ max_loaded_models' = r.self.max_loaded_models
           /\ ret' = call
           /\ scenario' = Follow(call)
           /\ order' = Track(models', call)
           /\ UNCHANGED <<files, pc, disk, server>>

OffloadModel(model_name) ==
    /\ pc.at = "idle"
    /\ \E s \in {offload_model(Self, model_name)} :
       \E call \in {Call("offload_model", model_name, s, RetNone)} :
           /\ config' = s.config
           /\ models' = s.models
           /\ stack' = s.stack
           /\ current_model' = s.current_model
           /\ max_loaded_models' = s.max_loaded_models
           /\ ret' = call
           /\ scenario' = Follow(call)
           /\ order' = Track(models', call)
           /\ UNCHANGED <<files, pc, disk, server>>

DelModel(model_name) ==
    /\ pc.at = "idle"
    /\ \E s \in {del_model(Self, model_name)} :
       \E call \in {Call("del_model", model_name, s, Outcome(s))} :
           /\ config' = s.config
           /\ models' = s.models
           /\ stack' = s.stack
           /\ current_model' = s.current_model
           /\ max_loaded_models' = s.max_loaded_models
           /\ ret' = call
           /\ scenario' = Follow(call)
           /\ order' = Track(models', call)
           /\ UNCHANGED <<files, pc, disk, server>>

AddModel(model_name, model_attributes, clobber) ==
    /\ pc.at = "idle"
    /\ \E s \in {add_model(Self, model_name, model_attributes, clobber)} :
       \E call \in {Call(IF clobber THEN "add_model_clobber" ELSE "add_model",
                         model_name, s, Outcome(s))} :
           /\ config' = s.config
           /\ models' = s.models
           /\ stack' = s.stack
           /\ current_model' = s.current_model
           /\ max_loaded_models' = s.max_loaded_models
           /\ ret' = call
           /\ scenario' = Follow(call)
           /\ order' = Track(models', call)
           /\ UNCHANGED <<files, pc, disk, server>>

SetDefaultModel(model_name) ==
    /\ pc.at = "idle"
    /\ \E s \in {set_default_model(Self, model_name)} :
       \E call \in {Call("set_default_model", model_name, s, Outcome(s))} :
           /\ config' = s.config
           /\ models' = s.models
           /\ stack' = s.stack
           /\ current_model' = s.current_model
           /\ max_loaded_models' = s.max_loaded_models
           /\ ret' = call
           /\ scenario' = Follow(call)
           /\ order' = Track(models', call)
           /\ UNCHANGED <<files, pc, disk, server>>

ListModels ==
    /\ pc.at = "idle"
    /\ \E call \in {Call("list_models", None, Self, RetListing(list_models(Self)))} :
           /\ config' = config
           /\ models' = models
           /\ stack' = stack
           /\ current_model' = current_model
           /\ max_loaded_models' = max_loaded_models
           /\ ret' = call
           /\ scenario' = Follow(call)
           /\ order' = Track(models', call)
           /\ UNCHANGED <<files, pc, disk, server>>

\* commit, lines 296-297: the registry is serialised and the temporary
\* file named, before any file is touched
Commit(config_file_path) ==
    /\ pc.at = "idle"
    /\ pc.commits < MaxCommits
    /\ pc' = [at |-> "open", path |-> config_file_path,
              tmpfile |-> tmpfile(config_file_path),
              yaml_str |-> ToYaml(config),
              old |-> files[config_file_path], commits |-> pc.commits]
    /\ UNCHANGED <<config, models, stack, current_model, max_loaded_models,
                   ret, scenario, files, order, disk, server>>

\* line 298: with open(tmpfile, 'w') as outfile
CommitOpen ==
    /\ pc.at = "open"
    /\ files' = open_w(files, pc.tmpfile)
    /\ pc' = [pc EXCEPT !.at = "write_preamble"]
    /\ UNCHANGED <<config, models, stack, current_model, max_loaded_models,
                   ret, scenario, order, disk, server>>

\* line 299: outfile.write(self.preamble())
CommitWritePreamble ==
    /\ pc.at = "write_preamble"
    /\ files' = write(files, pc.tmpfile, preamble)
    /\ pc' = [pc EXCEPT !.at = "write_yaml"]
    /\ UNCHANGED <<config, models, stack, current_model, max_loaded_models,
                   ret, scenario, order, disk, server>>

\* line 300 and the end of the with block: outfile.write(yaml_str), close
CommitWriteYaml ==
    /\ pc.at = "write_yaml"
    /\ files' = write(files, pc.tmpfile, pc.yaml_str)
    /\ pc' = [pc EXCEPT !.at = "replace"]
    /\ UNCHANGED <<config, models, stack, current_model, max_loaded_models,
                   ret, scenario, order, disk, server>>

\* line 301: os.replace(tmpfile, config_file_path), and commit returns
CommitReplace ==
    /\ pc.at = "replace"
    /\ \E call \in {Call("commit", pc.path, Self, RetNone)} :
          /\ ret' = call
          /\ scenario' = Follow(call)
    /\ files' = os_replace(files, pc.tmpfile, pc.path)
    /\ pc' = Idle(pc.commits + 1)
    /\ UNCHANGED <<config, models, stack, current_model, max_loaded_models,
                   order, disk, server>>

\* the process dies between two steps of a running commit
Crash ==
    /\ pc.at \in {"open", "write_preamble", "write_yaml", "replace"}
    /\ pc' = [pc EXCEPT !.at = "crashed"]
    /\ UNCHANGED <<config, models, stack, current_model, max_loaded_models,
                   ret, scenario, files, order, disk, server>>

\* _load_model, lines 221-223: the weights file is read and hashed
CachedSha256(path) ==
    \E r \in {_cached_sha256(disk, path, disk.weights[path].data)} :
        /\ disk' = [r.disk EXCEPT !.last =
                        [path |-> path, hash |-> r.hash, read |-> r.read,
                         of |-> r.disk.hashes[hashpath(path)].of]]
        /\ UNCHANGED <<config, models, stack, current_model, max_loaded_models,
                       ret, scenario, files, pc, order, server>>

\* the user replaces a weights file
WriteWeights(path, data) ==
    /\ disk' = [disk EXCEPT !.weights[path] =
                    [mtime |-> disk.clock, data |-> data]]
    /\ UNCHANGED <<config, models, stack, current_model, max_loaded_models,
                   ret, scenario, files, pc, order, server>>

\* time passes
Tick ==
    /\ disk.clock < MaxClock
    /\ disk' = [disk EXCEPT !.clock = @ + 1]
    /\ UNCHANGED <<config, models, stack, current_model, max_loaded_models,
                   ret, scenario, files, pc, order, server>>

\* do_POST up to the start of the generation: self.canceled.clear()
DoPost(r) ==
    /\ server.post[r].at = "new"
    /\ server' = [server EXCEPT !.canceled = FALSE, !.post[r].at = "running"]
    /\ UNCHANGED <<config, models, stack, current_model, max_loaded_models,
                   ret, scenario, files, pc, order, disk>>

\* the sampler calls step_callback
ImageProgress(r) ==
    /\ server.post[r].at = "running"
    /\ server.post[r].step < MaxSteps
    /\ server' = image_progress(server, r)
    /\ UNCHANGED <<config, models, stack, current_model, max_loaded_models,
                   ret, scenario, files, pc, order, disk>>

\* after the last step the generator calls image_callback, which writes the
\* 'result' event; prompt2image returns and so does do_POST
ImageDone(r) ==
    /\ server.post[r].at = "running"
    /\ server.post[r].step = MaxSteps
    /\ server' = [server EXCEPT !.post[r].wfile = Append(@, "result"),
                                !.post[r].at = "done"]
    /\ UNCHANGED <<config, models, stack, current_model, max_loaded_models,
                   ret, scenario, files, pc, order, disk>>

\* do_GET for /cancel: self.canceled.set().  Each generation that is running
\* with a step callback still to come is marked as canceled here.
DoGetCancel ==
    /\ server' =
          [server EXCEPT
             !.canceled = TRUE,
             !.post = [r \in Requests |->
                         LET p == server.post[r]
                         IN  IF /\ p.at = "running"
                                /\ p.step < MaxSteps
                                /\ p.cancel_at = -1
                             THEN [p EXCEPT !.cancel_at = Len(p.wfile)]
                             ELSE p]]
    /\ UNCHANGED <<config, models, stack, current_model, max_loaded_models,
                   ret, scenario, files, pc, order, disk>>

Init ==
    /\ config = [n \in {"A", "B"} |-> Attributes(InitialSize, n = "A")]
    /\ models = [n \in {} |-> 0]
    /\ stack = <<>>
    /\ current_model = None
    /\ max_loaded_models \in 0..MaxCapacity
    /\ ret = [op |-> "__init__", name |-> None, was |-> "absent", prev |-> None,
              loads |-> 0, failed |-> 0, evicted |-> None, peak |-> 0,
              result |-> RetNone]
    /\ scenario = [step |-> 0, loads |-> 0]
    /\ files = [p \in Paths |->
                  IF p = "configs/models.yaml"
                  THEN File(preamble \o ToYaml(config))
                  ELSE Missing]
    /\ pc = Idle(0)
    /\ order = <<>>
    /\ disk = InitDisk
    /\ server = InitServer

Next ==
    \/ \E n \in Names, k \in 0..RecursionLimit : GetModel(n, k)
    \/ \E n \in Names : OffloadModel(n)
    \/ \E n \in Names : DelModel(n)
    \/ \E n \in Names, a \in AttributeInputs, c \in BOOLEAN : AddModel(n, a, c)
    \/ \E n \in Names : SetDefaultModel(n)
    \/ ListModels

Spec == Init /\ [][Next]_vars

\* the registry operations on the models of the initial models.yaml, the
\* loader succeeding, and commit one step at a time with a crash possible
\* between any two steps
CommitNames == {"A", "B"}

InitCommit == Init /\ max_loaded_models = MaxCapacity

NextCommit ==
    \/ \E n \in CommitNames : GetModel(n, 0)
    \/ \E n \in CommitNames : DelModel(n)
    \/ \E n \in CommitNames, d \in BOOLEAN, c \in BOOLEAN :
          AddModel(n, Attributes(InitialSize, d), c)
    \/ \E n \in CommitNames : SetDefaultModel(n)
    \/ \E path \in Paths : Commit(path)
    \/ CommitOpen
    \/ CommitWritePreamble
    \/ CommitWriteYaml
    \/ CommitReplace
    \/ Crash

SpecCommit == InitCommit /\ [][NextCommit]_vars

\* the hashing of weights files, with the files replaced and time passing
\* in between
NextHash ==
    \/ \E path \in WeightPaths : CachedSha256(path)
    \/ \E path \in WeightPaths, data \in Data : WriteWeights(path, data)
    \/ Tick

SpecHash == Init /\ [][NextHash]_vars

\* the handler threads of the server, interleaved at the operations on the
\* shared Event
NextServer ==
    \/ \E r \in Requests : DoPost(r)
    \/ \E r \in Requests : ImageProgress(r)
    \/ \E r \in Requests : ImageDone(r)
    \/ DoGetCancel

SpecServer == Init /\ [][NextServer]_vars

\* the registry operations with descriptors that declare either size, the
\* loader succeeding
NextResize ==
    \/ \E n \in CommitNames : GetModel(n, 0)
    \/ \E n \in CommitNames : DelModel(n)
    \/ \E n \in CommitNames, size \in Sizes, c \in BOOLEAN :
          AddModel(n, Attributes(size, FALSE), c)

SpecResize == Init /\ [][NextResize]_vars

(* ------------------------------- claims -------------------------------- *)

\* the last call was get_model and it returned (it did not raise)
Acquired == ret.op = "get_model" /\ ret.result.type # "raise"

\* the last call returned (it did not raise)
Returned == ret.op # "__init__" /\ ret.result.type # "raise"

\* number of positions of the list holding x
Count(x, s) == Cardinality({i \in 1..Len(s) : s[i] = x})

\* C1: with a capacity of at least 1, each time get_model returns, whatever
\* the name (known or not) and whatever the loader did, the pool holds at
\* most max_loaded_models models.
C1_PoolWithinCapacity ==
    (max_loaded_models >= 1 /\ Acquired)
        => Cardinality(DOMAIN models) <= max_loaded_models

\* a get_model that loaded a new model into a full pool, purging one
C1_Witness ==
    /\ max_loaded_models >= 1
    /\ Acquired
    /\ ret.result.type = "dict"
    /\ ret.was = "absent"
    /\ ret.evicted # None
    /\ Cardinality(DOMAIN models) = max_loaded_models

\* C2: with a capacity of at least 1, the model purged by _make_cache_room
\* is never the model that is active when it is purged.
C2_ActiveNeverEvicted ==
    (max_loaded_models >= 1 /\ ret.op = "get_model" /\ ret.evicted # None)
        => ret.evicted # ret.prev

\* C3: after any public method returns, current_model is None or a key of
\* the pool.
C3_ActiveIsResident ==
    Returned => (current_model = None \/ current_model \in DOMAIN models)

\* C4: after any public method returns, the stack holds exactly the keys of
\* the pool, each once.
C4_StackIsPool ==
    Returned =>
        /\ {stack[i] : i \in 1..Len(stack)} = DOMAIN models
        /\ \A n \in DOMAIN models : Count(n, stack) = 1

\* C5: get_model of a name that is not in the registry leaves current_model
\* as it was and returns the record of the active model (model, width,
\* height, hash), not its bare name.
C5_UnknownReturnsActiveRecord ==
    (ret.op = "get_model" /\ ret.name \notin DOMAIN config /\ ret.prev # None)
        => /\ current_model = ret.prev
           /\ ret.result.type = "dict"
           /\ current_model \in DOMAIN models
           /\ ret.result = RetDict(models[current_model])

\* C6: when _load_model fails in get_model(name) for a registered name that
\* was not in the pool, get_model returns None, current_model is the model
\* that was active before the call, and name is neither in the pool nor in
\* the stack.
C6_FailedLoadLeavesNoTrace ==
    (/\ ret.op = "get_model"
     /\ ret.name \in DOMAIN config
     /\ ret.was = "absent"
     /\ ret.failed >= 1)
        => /\ ret.result.type = "None"
           /\ current_model = ret.prev
           /\ ret.name \notin DOMAIN models
           /\ ~InList(ret.name, stack)

\* C7: whatever calls of _load_model fail, the one restoring the previous
\* active model included, get_model returns to its caller and does not raise.
C7_LoadFailureNeverRaises ==
    (ret.op = "get_model" /\ ret.failed >= 1) => ret.result.type = "None"

\* C8: get_model of a model that is in the pool on the host puts it on the
\* device and returns it, and _load_model is not called.
C8_HostResidentNeedsNoLoad ==
    (ret.op = "get_model" /\ ret.was = "cpu")
        => /\ ret.result.type = "dict"
           /\ ret.name \in DOMAIN models
           /\ models[ret.name].model = device
           /\ ret.result = RetDict(models[ret.name])
           /\ ret.loads = 0

C10_AcquiredIsNewest ==
    (ret.op = "get_model" /\ ret.result.type = "dict")
        => /\ current_model = ret.name
           /\ Len(stack) >= 1
           /\ stack[Len(stack)] = ret.name
           /\ Count(ret.name, stack) = 1

\* a get_model of a model that was already in the pool, among others
C10_Witness ==
    /\ ret.op = "get_model"
    /\ ret.result.type = "dict"
    /\ ret.was = "cpu"
    /\ Len(stack) >= 2

\* C11: set_default_model(name) fails with the unknown-model assertion
\* whenever name is not in the pool, also when name is in the registry, and
\* then no descriptor changes.
C11_SetDefaultNeedsLoaded ==
    [][(ret'.op = "set_default_model" /\ ret'.name \notin DOMAIN models)
          => (ret'.result = RetRaise(UnknownModel) /\ config' = config)]_vars

\* set_default_model refused a registered name that is not in the pool,
\* while some descriptor is flagged default
C11_Witness ==
    /\ ret.op = "set_default_model"
    /\ ret.result = RetRaise(UnknownModel)
    /\ ret.name \in DOMAIN config
    /\ ret.name \notin DOMAIN models
    /\ Flagged(config) # {}

\* C12: after a set_default_model(name) that returns, name is flagged
\* default, no other descriptor is, and default_model() returns name.
C12_SetDefaultIsExclusive ==
    (ret.op = "set_default_model" /\ ret.result = RetTrue)
        => /\ Flagged(config) = {ret.name}
           /\ default_model(Self) = ret.name

\* set_default_model moved the flag to B among several descriptors
C12_Witness ==
    /\ ret.op = "set_default_model"
    /\ ret.result = RetTrue
    /\ ret.name = "B"
    /\ Cardinality(DOMAIN config) >= 2

\* C13: in every state reached through add_model (any attributes, with or
\* without clobber), del_model and set_default_model, at most one descriptor
\* is flagged default.
C13_AtMostOneDefault == Cardinality(Flagged(config)) <= 1

\* C14: in every reachable state, add_model(name, attributes, clobber=False)
\* for a name that is in the registry fails with an AssertionError (the overwrite assertion when the
\* attributes are complete) and leaves the registry, the pool and the stack
\* as they were.
C14_AddExistingFails ==
    \A n \in DOMAIN config, a \in AttributeInputs :
        \E s \in {add_model(Self, n, a, FALSE)} :
            /\ s.exc = (IF RequiredFields \subseteq DOMAIN a
                        THEN AlreadyExists ELSE MissingField)
            /\ s.config = config
            /\ s.models = models
            /\ s.stack = stack

\* add_model without clobber was refused for a registered, pooled name
C14_Witness ==
    /\ ret.op = "add_model"
    /\ ret.result = RetRaise(AlreadyExists)
    /\ ret.name \in DOMAIN config
    /\ ret.name \in DOMAIN models

\* C15: in every reachable state, add_model fails with the missing-field assertion whenever one of
\* description, weights, height, width, config is absent from the
\* attributes, with or without clobber, and then the registry, the pool and
\* the stack are as they were (the cached entry is not invalidated).
C15_MissingFieldFails ==
    \A n \in Names, a \in AttributeInputs, c \in BOOLEAN :
        ~(RequiredFields \subseteq DOMAIN a)
            => \E s \in {add_model(Self, n, a, c)} :
                   /\ s.exc = MissingField
                   /\ s.config = config
                   /\ s.models = models
                   /\ s.stack = stack

\* a clobbering add_model lacking a field was refused and the cached entry
\* of the name is still in the pool and in the stack
C15_Witness ==
    /\ ret.op = "add_model_clobber"
    /\ ret.result = RetRaise(MissingField)
    /\ ret.name \in DOMAIN models
    /\ InList(ret.name, stack)

\* C16: after an add_model(name, attributes, clobber=True) that returns, in
\* a cache with room for at least one model, name is neither in the pool
\* nor in the stack, and a get_model(name) that follows directly calls
\* _load_model.
C16_ClobberForcesReload ==
    [][(/\ ret.op = "add_model_clobber"
        /\ ret.result = RetTrue
        /\ max_loaded_models >= 1)
          => /\ ret.name \notin DOMAIN models
             /\ ~InList(ret.name, stack)
             /\ (ret'.op = "get_model" /\ ret'.name = ret.name)
                    => ret'.loads >= 1]_vars

\* C17: del_model(name) of a registered name deletes the descriptor, takes
\* name out of the stack if it is there, and leaves the pool (its keys and
\* the location of every entry, name included) and current_model as they
\* were.
C17_RemoveLeavesPool ==
    [][(ret'.op = "del_model" /\ ret'.name \in DOMAIN config)
          => /\ ret'.result = RetTrue
             /\ DOMAIN config' = DOMAIN config \ {ret'.name}
             /\ \A n \in DOMAIN config' : config'[n] = config[n]
             /\ stack' = SelectSeq(stack, LAMBDA x : x # ret'.name)
             /\ models' = models
             /\ current_model' = current_model]_vars

\* del_model removed the descriptor of the active model, which stays in the
\* pool
C17_Witness ==
    /\ ret.op = "del_model"
    /\ ret.result = RetTrue
    /\ ret.was # "absent"
    /\ ret.name \in DOMAIN models
    /\ current_model = ret.name
    /\ ret.name \notin DOMAIN config

\* C18: the dict returned by list_models has exactly the registry's names as
\* keys; a name's status is 'active' iff it is current_model, 'cached' iff it
\* is in the pool and is not current_model, and 'not loaded' iff it is not
\* in the pool; at most one name is reported active.
C18_ListStatus ==
    ret.op = "list_models"
        => /\ DOMAIN ret.result.models = DOMAIN config
           /\ \A n \in DOMAIN config :
                 LET status == ret.result.models[n].status
                 IN  /\ status = "active" <=> n = current_model
                     /\ status = "cached" <=>
                            (n \in DOMAIN models /\ n # current_model)
                     /\ status = "not loaded" <=> n \notin DOMAIN models
           /\ Cardinality({n \in DOMAIN config :
                               ret.result.models[n].status = "active"}) <= 1

\* C19: when commit(path) has returned, a fresh load of the file at path
\* yields the registry as it is in memory: the same names, and for each name
\* the same fields with the same values.
C19_PersistRoundTrip ==
    (ret.op = "commit" /\ pc.at = "idle")
        => /\ files[ret.name].exists
           /\ Load(files[ret.name].lines) = config

\* commit returned for a registry changed by get_model, set_default_model
\* and del_model: only B is left and it is the default
C19_Witness ==
    /\ ret.op = "commit"
    /\ pc.at = "idle"
    /\ DOMAIN config = {"B"}
    /\ Flagged(config) = {"B"}
    /\ files[ret.name].exists

\* C20: if the process dies at any step of commit(path), the file at path
\* is as it was before the call or holds the complete new document, the
\* preamble followed by the serialised registry.
C20_CrashLeavesWholeDocument ==
    pc.at = "crashed"
        => files[pc.path] \in {pc.old, File(preamble \o pc.yaml_str)}

C24_CapacityZeroRejected == ret.op = "get_model" => max_loaded_models >= 1

\* C25: current_model changes only in a get_model that returns the model it
\* was asked for, and then it becomes that name; every other call (add_model,
\* del_model, set_default_model, list_models, commit, offload_model, a
\* get_model of an unknown name or one whose load fails) leaves it as it was.
\* current_model is one name or None.
C25_ActiveChangesOnAcquire ==
    [][/\ current_model' \in Names \cup {None}
       /\ current_model' # current_model
             => /\ ret'.op = "get_model"
                /\ ret'.result.type = "dict"
                /\ ret'.name = current_model']_vars

\* the active model was dropped from the pool by a clobbering add_model and
\* is still the active model
C25_Witness ==
    /\ ret.op = "add_model_clobber"
    /\ ret.result = RetTrue
    /\ ret.was # "absent"
    /\ ret.prev = ret.name
    /\ current_model = ret.name

\* C27: when a get_model whose load failed returns and a model P was active
\* before the call, P is in the pool and on the device.
C27_PreviousRestored ==
    (/\ ret.op = "get_model"
     /\ ret.failed >= 1
     /\ ret.result.type # "raise"
     /\ ret.prev # None)
        => /\ ret.prev \in DOMAIN models
           /\ models[ret.prev].model = device

\* C30: get_model(name) for a name that is not in the registry changes
\* nothing: the pool (its names and the location of every model), the stack,
\* the registry and current_model are as before, _load_model is not called
\* and nothing is purged.
C30_UnknownChangesNothing ==
    [][(ret'.op = "get_model" /\ ret'.name \notin DOMAIN config)
          => /\ models' = models
             /\ stack' = stack
             /\ config' = config
             /\ current_model' = current_model
             /\ ret'.loads = 0
             /\ ret'.evicted = None]_vars

\* get_model of an unknown name returned while the pool is full and the
\* active model is on the device
C30_Witness ==
    /\ ret.op = "get_model"
    /\ ret.name \notin DOMAIN config
    /\ ret.result.type = "str"
    /\ current_model \in DOMAIN models
    /\ models[current_model].model = device
    /\ max_loaded_models >= 1
    /\ Cardinality(DOMAIN models) >= max_loaded_models

\* C26: with a capacity of at least 1, a get_model of a registered model
\* that is not in the pool purges exactly one entry when the pool is at or
\* above capacity, the pooled model whose latest successful get_model is the
\* oldest, and purges nothing when the pool is below capacity.
C26_EvictsLeastRecentlyAcquired ==
    [][(/\ ret'.op = "get_model"
        /\ ret'.name \in DOMAIN config
        /\ ret'.name \notin DOMAIN models
        /\ max_loaded_models >= 1)
          => IF Cardinality(DOMAIN models) >= max_loaded_models
             THEN ret'.evicted = Head(order)
             ELSE ret'.evicted = None]_vars

\* C21: in every reachable state of the files, _cached_sha256(path, data)
\* reads the hash from the hash file iff that file exists and is not older
\* than the weights file; otherwise it returns the digest of data and writes
\* it to the hash file.  Either way the hash file then holds the returned
\* hash.
C21_HashReadIffFresh ==
    \A path \in WeightPaths, data \in Data :
        LET hp    == hashpath(path)
            fresh == /\ disk.hashes[hp].exists
                     /\ disk.hashes[hp].mtime >= disk.weights[path].mtime
        IN  \E r \in {_cached_sha256(disk, path, data)} :
              /\ r.read <=> fresh
              /\ fresh => r.hash = disk.hashes[hp].text /\ r.disk = disk
              /\ ~fresh => /\ r.hash = sha256(data)
                           /\ r.disk.hashes[hp].mtime = disk.clock
                           /\ r.disk.weights = disk.weights
              /\ r.disk.hashes[hp].exists
              /\ r.disk.hashes[hp].text = r.hash

\* the hash was read from a hash file exactly as old as the weights file,
\* which had been replaced since time 0
C21_Witness ==
    /\ disk.last.read
    /\ disk.clock >= 1
    /\ disk.weights[disk.last.path].mtime >= 1
    /\ disk.hashes[hashpath(disk.last.path)].mtime
          = disk.weights[disk.last.path].mtime

\* C28: a hash read from a hash file was written there for the same weights
\* file: no weights file is given the hash of another.
C28_OwnHashFile ==
    disk.last.read => disk.last.of = disk.last.path

\* C29: once a GET /cancel was handled while a generation was running with
\* a step callback to come, the only event that generation writes afterwards
\* is 'canceled', at its next step callback: no 'step' and no 'result',
\* whatever the other requests do in between.
C29_CancelStopsGeneration ==
    \A r \in Requests :
        LET p == server.post[r]
        IN  p.cancel_at >= 0
              => SubSeq(p.wfile, p.cancel_at + 1, Len(p.wfile))
                    \in {<<>>, <<"canceled">>}

\* C31: every get_model terminates by returning: the recovery path
\* (get_model calling itself for the previous active model) is taken a
\* bounded number of times whatever calls of _load_model fail, that of the
\* requested model and those of the previous active model included; the
\* chain of recovery calls never grows until the interpreter stops it.
C31_AcquireTerminates ==
    ret.op = "get_model"
        => /\ ret.result # RetRaise("RecursionError")
           /\ ret.failed < RecursionLimit

\* C32: at every point during and after every method call at most one
\* model of the pool is on the device, and a model on the device is the
\* active one; when get_model returns a model record, the requested model
\* is the active one and is the one on the device (the previously active
\* model was put on the CPU before it was loaded or moved).
C32_OneDeviceResident ==
    /\ ret.peak <= 1
    /\ DeviceResident(models) \subseteq {current_model}
    /\ (ret.op = "get_model" /\ ret.result.type = "dict")
          => DeviceResident(models) = {ret.name}

\* get_model has moved a model from the CPU to the device while the model
\* that was active before, now on the CPU, stays in the pool
C32_Witness ==
    /\ ret.op = "get_model"
    /\ ret.result.type = "dict"
    /\ ret.was = "cpu"
    /\ ret.prev # ret.name
    /\ ret.prev \in DOMAIN models
    /\ models[ret.prev].model = "cpu"
    /\ DeviceResident(models) = {ret.name}

\* C33: with a capacity of at least 1, in every state reached through the
\* public methods every name of the stack is a key of the pool, and the
\* stack is not empty whenever the pool holds max_loaded_models models or
\* more; so _make_cache_room always pops a name that is in the pool, and
\* get_model never fails with IndexError or KeyError.
C33_EvictionFindsVictim ==
    max_loaded_models >= 1
        => /\ \A i \in 1..Len(stack) : stack[i] \in DOMAIN models
           /\ (Cardinality(DOMAIN models) >= max_loaded_models => Len(stack) >= 1)
           /\ (ret.op = "get_model"
                 => ret.result \notin {RetRaise("IndexError"), RetRaise("KeyError")})

\* C34: after any sequence of add_model, del_model and get_model, a
\* get_model(name) that returns a model record returns the width and the
\* height that the registry declares for name at that time.
C34_AcquireReturnsDeclaredSize ==
    (ret.op = "get_model" /\ ret.result.type = "dict")
        => /\ ret.result.width = config[ret.name]["width"]
           /\ ret.result.height = config[ret.name]["height"]

\* C35: set_default_model(name) is all or nothing in every reachable state,
\* the states where name is in the pool but no longer in the registry
\* included: either it returns and name is the one model flagged default,
\* or it raises and every descriptor's default flag is as it was before
\* the call.
C35_SetDefaultAllOrNothing ==
    [][ret'.op = "set_default_model"
          => IF ret'.result.type = "raise"
             THEN /\ DOMAIN config' = DOMAIN config
                  /\ Flagged(config') = Flagged(config)
             ELSE Flagged(config') = {ret'.name}]_vars

\* C36: a get_model that returns None because _load_model failed for the
\* requested model, the recovery call having put the previous active model
\* back on the device without a further failure, leaves the pool with the
\* same models and the stack in the same order as before the call: no
\* model of the pool is lost to a failed load.
C36_FailedLoadKeepsPool ==
    [][(/\ ret'.op = "get_model"
        /\ ret'.failed = 1
        /\ ret'.result = RetNone
        /\ ret'.prev # None
        /\ current_model' = ret'.prev
        /\ ret'.prev \in DOMAIN models'
        /\ models'[ret'.prev].model = device)
          => /\ DOMAIN models' = DOMAIN models
             /\ stack' = stack]_vars
====
